---------------------------- MODULE Spec2Model ----------------------------
(***************************************************************************)
(* work-stats: one run of main (src/main.go).  The run parses its flags,   *)
(* polls the data sources one after another, hands every batch of reports  *)
(* to write (flat files + styled rows accumulated in rowData) and finally  *)
(* creates a spreadsheet or appends tabs to an existing one.               *)
(*                                                                         *)
(* Strings that the program takes apart (the -sheets reference, the -since *)
(* date) are sequences of one-character strings; strings it only compares  *)
(* or copies (report names, cells) are TLA+ strings.                       *)
(***************************************************************************)
EXTENDS Integers, Sequences, FiniteSets, TLC

\* ------------------------------------------------------------------ bounds

\* Longest table (rows, header included) a source hands over in SpecStyle.
MaxRows == 4
\* Most tabs the existing spreadsheet of append mode holds before the run.
MaxOldTabs == 2

\* ------------------------------------------------------- sequence helpers

Range(s) == {s[i] : i \in DOMAIN s}

\* All orders in which a Go map with key set S can be ranged over.
Perms(S) == {p \in [1..Cardinality(S) -> S] : Range(p) = S}

Prefix(s, n) == [i \in 1..n |-> s[i]]

Drop(s, n) == [i \in 1..(Len(s) - n) |-> s[i + n]]

HasPrefix(s, p) == Len(s) >= Len(p) /\ Prefix(s, Len(p)) = p

HasSuffix(s, p) == Len(s) >= Len(p) /\ Drop(s, Len(s) - Len(p)) = p

\* strings.TrimPrefix / strings.TrimSuffix
TrimPrefix(s, p) == IF HasPrefix(s, p) THEN Drop(s, Len(p)) ELSE s

TrimSuffix(s, p) == IF HasSuffix(s, p) THEN Prefix(s, Len(s) - Len(p)) ELSE s

\* ------------------------------------------------- spreadsheet reference

DomainPrefix == <<"h","t","t","p","s",":","/","/","d","o","c","s",".","g","o","o","g","l","e",".","c","o","m">>
EditSuffix == <<"e","d","i","t","#","g","i","d","=","0">>
PathMarker == <<"/","s","p","r","e","a","d","s","h","e","e","t","s","/","d","/">>
NewRef == <<"n","e","w">>
EmptyRef == <<>>

\* The character class [a-zA-Z0-9-_] of the regular expression.
IDChars == {"a","b","c","d","e","f","g","h","i","j","k","l","m","n","o","p","q","r","s","t","u","v","w","x","y","z","A","B","C","D","E","F","G","H","I","J","K","L","M","N","O","P","Q","R","S","T","U","V","W","X","Y","Z","0","1","2","3","4","5","6","7","8","9","-","_"}

\* Positions p at which /spreadsheets/d/([a-zA-Z0-9-_]+) matches s.
MatchStarts(s) ==
    {p \in 1..Len(s) :
        /\ p + Len(PathMarker) <= Len(s)
        /\ [i \in 1..Len(PathMarker) |-> s[p + i - 1]] = PathMarker
        /\ s[p + Len(PathMarker)] \in IDChars}

Min(S) == CHOOSE x \in S : \A y \in S : x <= y

\* The greedy run of IDChars that starts at position q of s.
RunEnd(s, q) ==
    Min({e \in q..Len(s) : e = Len(s) \/ s[e + 1] \notin IDChars})

\* re.FindStringSubmatch(trimmed): the submatches of the leftmost match
\* (whole match, group ID, inner group), or the nil slice <<>>.
FindStringSubmatch(s) ==
    IF MatchStarts(s) = {} THEN <<>>
    ELSE LET p == Min(MatchStarts(s))
             q == p + Len(PathMarker)
             e == RunEnd(s, q)
             id == [i \in 1..(e - q + 1) |-> s[q + i - 1]]
         IN  <<PathMarker \o id, id, id>>

\* re.SubexpNames() of the expression: the whole match is unnamed, group 1
\* is ID, the inner group 2 is unnamed.
SubexpNames == <<"", "ID", "">>

\* The trimming of main.go:71-72.
Trimmed(ref) == TrimSuffix(TrimPrefix(ref, DomainPrefix), EditSuffix)

\* The loop of main.go:80-84 over SubexpNames: match[i] is read for the
\* index i named ID; on the nil slice that read is out of range and the
\* program panics.
LocatePanics(ref) ==
    \E i \in DOMAIN SubexpNames :
        SubexpNames[i] = "ID" /\ i > Len(FindStringSubmatch(Trimmed(ref)))

LocatedID(ref) ==
    LET match == FindStringSubmatch(Trimmed(ref))
        hits == {i \in DOMAIN SubexpNames : SubexpNames[i] = "ID"}
    IN  IF hits = {} \/ LocatePanics(ref) THEN <<>>
        ELSE match[CHOOSE i \in hits : \A j \in hits : j <= i]

RefWellFormed == <<"h","t","t","p","s",":","/","/","d","o","c","s",".","g","o","o","g","l","e",".","c","o","m","/","s","p","r","e","a","d","s","h","e","e","t","s","/","d","/","A","B","C","1","2","3","x","y","z","_","-","/","e","d","i","t","#","g","i","d","=","0">>
RefQuery == <<"d","o","c","s",".","g","o","o","g","l","e",".","c","o","m","/","s","p","r","e","a","d","s","h","e","e","t","s","/","d","/","Z","z","9","/","e","d","i","t","?","u","s","p","=","s","h","a","r","i","n","g">>
RefTwice == <<"/","s","p","r","e","a","d","s","h","e","e","t","s","/","d","/","/","s","p","r","e","a","d","s","h","e","e","t","s","/","d","/","q","1">>
RefNoPath == <<"h","t","t","p","s",":","/","/","e","x","a","m","p","l","e",".","c","o","m","/","s","h","e","e","t">>
RefOnlySuffix == <<"h","t","t","p","s",":","/","/","d","o","c","s",".","g","o","o","g","l","e",".","c","o","m","/","s","p","r","e","a","d","s","h","e","e","t","s","/","d","/","e","d","i","t","#","g","i","d","=","0">>
RefCapitalNew == <<"N","e","w">>

\* The -sheets values a run is started with.
Refs ==
    {EmptyRef, NewRef, RefWellFormed, RefQuery, RefTwice,
     RefNoPath, RefOnlySuffix, RefCapitalNew}

\* ------------------------------------------------------------ -since date

SinceGood == <<"2","0","2","0","-","0","1","-","0","2">>
SinceBadLayout == <<"0","1","/","0","2","/","2","0","2","0">>
SinceBadDay == <<"2","0","2","1","-","0","2","-","3","0">>

Digits == <<"0","1","2","3","4","5","6","7","8","9">>

IsDigit(c) == c \in Range(Digits)

DigitVal(c) == (CHOOSE i \in DOMAIN Digits : Digits[i] = c) - 1

IsLeap(y) == y % 4 = 0 /\ (y % 100 /= 0 \/ y % 400 = 0)

DaysIn(m, y) ==
    IF m = 2 THEN (IF IsLeap(y) THEN 29 ELSE 28)
    ELSE IF m \in {4, 6, 9, 11} THEN 30 ELSE 31

\* The fields time.Parse("2006-01-02", s) reads.
DateOf(s) ==
    [year |-> DigitVal(s[1]) * 1000 + DigitVal(s[2]) * 100
                + DigitVal(s[3]) * 10 + DigitVal(s[4]),
     month |-> DigitVal(s[6]) * 10 + DigitVal(s[7]),
     day |-> DigitVal(s[9]) * 10 + DigitVal(s[10])]

\* time.Parse("2006-01-02", s) returns no error.
ParseOK(s) ==
    /\ Len(s) = 10
    /\ \A i \in {1, 2, 3, 4, 6, 7, 9, 10} : IsDigit(s[i])
    /\ s[5] = "-" /\ s[8] = "-"
    /\ DateOf(s).month \in 1..12
    /\ DateOf(s).day \in 1..DaysIn(DateOf(s).month, DateOf(s).year)

\* main.go:58-65: the start date, 1900-01-01 when -since is omitted.
StartOf(s) ==
    IF s = <<>> THEN [year |-> 1900, month |-> 1, day |-> 1] ELSE DateOf(s)

\* ------------------------------------------------------- reports, styling

\* Go's nil slice, nil map and nil pointer.
Nil == <<>>

NoColor == Nil
\* sheets.Color{Red, Green, Blue}, in hundredths.
SubtotalColor == <<96, 96, 96>>
TotalColor == <<92, 92, 92>>

\* main.go:206-209
IsTotal(row) == Len(row) >= 1 /\ row[1] = "Total"

IsSubtotal(row) == Len(row) >= 1 /\ row[1] = "Subtotal"

\* Bold as it would be were the subtotal test left out.
BoldWithoutSubtotal(i, row) == i = 0 \/ IsTotal(row)

\* main.go:216, i is the 0-based index of the row.
Bold(i, row) == i = 0 \/ IsTotal(row) \/ IsSubtotal(row)

\* main.go:220-232
BackgroundColor(i, row) ==
    IF IsSubtotal(row) THEN SubtotalColor
    ELSE IF IsTotal(row) THEN TotalColor
    ELSE NoColor

\* main.go:210-219, one sheets.CellData.
CellData(i, row, cell) ==
    [StringValue |-> cell,
     Bold |-> Bold(i, row),
     BackgroundColor |-> BackgroundColor(i, row)]

\* main.go:203-237, one sheets.RowData (its Values).
StyleRow(i, row) == [j \in 1..Len(row) |-> CellData(i, row, row[j])]

\* The rd of one report were rows without cells skipped.
StyleRowsSkippingEmpty(cells) ==
    LET keep == {k \in DOMAIN cells : cells[k] /= <<>>}
        nth(m) == CHOOSE k \in keep : Cardinality({x \in keep : x <= k}) = m
    IN  [m \in 1..Cardinality(keep) |-> StyleRow(nth(m) - 1, cells[nth(m)])]

\* main.go:201-238, the rd of one report.
StyleRows(cells) == [k \in 1..Len(cells) |-> StyleRow(k - 1, cells[k])]

\* m with the entries of d written over it.
Merge(m, d) ==
    [x \in (DOMAIN m) \cup (DOMAIN d) |-> IF x \in DOMAIN d THEN d[x] ELSE m[x]]

\* write's second loop were the new rows appended to the entry of a name
\* already present.
writeAppending(data, rowData) ==
    [x \in (DOMAIN rowData) \cup (DOMAIN data) |->
        IF x \in DOMAIN data
        THEN (IF x \in DOMAIN rowData THEN rowData[x] ELSE <<>>) \o StyleRows(data[x])
        ELSE rowData[x]]

\* main.go:200-240, the second loop of write: rowData[title] = rd.
write(data, rowData) ==
    Merge(rowData, [title \in DOMAIN data |-> StyleRows(data[title])])

\* main.go:178-195, the first loop of write when no file operation fails:
\* every <name>.csv is created (truncated) and holds every row.
WriteFiles(data, files) == Merge(files, data)

\* main.go:178-195 when the file at position k of the range order fails:
\* the files before it are complete; it is left alone when os.Create
\* failed (j < 0) and otherwise holds the j rows written before the error.
WriteFilesFailed(data, files, order, k, j) ==
    LET done == {order[i] : i \in 1..(k - 1)}
        part == IF j < 0 THEN {} ELSE {order[k]}
    IN  Merge(files,
              [n \in done \cup part |->
                  IF n \in done THEN data[n] ELSE Prefix(data[n], j)])

\* ------------------------------------------------------------ data sources

\* golang.Issues, golang.Changelists, github.IssuesAndPRs, in run order.
Sources == <<"goIssues", "goCLs", "githubIssues">>

\* The report names a source may hand over.
SourceNames(s) ==
    IF s = 1 THEN {"go-issues"}
    ELSE IF s = 2 THEN {"go-cls", "go-issues"}
    ELSE {"github-issues"}

HeaderOnly == << <<"Repo", "Count">> >>
ThreeRows == << <<"Repo", "Count">>, <<"golang/go", "3">>, <<"Total", "3">> >>

RunTables == {HeaderOnly, ThreeRows}

\* The map[string][][]string values source s may return.
Batches(s) ==
    UNION {[names -> RunTables] : names \in SUBSET SourceNames(s)}

RowShapes ==
    {<<>>, <<"Total">>, <<"Total", "3">>, <<"Subtotal", "2">>,
     <<"Repo", "Total">>, <<"golang/go", "1">>, <<"Repo", "Count">>}

\* Tables of 0..MaxRows rows of any shape.
WideTables == UNION {[1..n -> RowShapes] : n \in 0..MaxRows}

WideBatches == {[n \in {"github-issues"} |-> t] : t \in WideTables}

\* ------------------------------------------------------- remote spreadsheet

\* Titles of tabs the existing spreadsheet may hold, in tab order.
OldTitles == <<"Sheet1", "Sheet2", "go-issues">>

\* An increasing choice of positions of OldTitles, as a tab list.
TabsOf(pos) ==
    [k \in 1..Len(pos) |->
        [SheetId |-> k - 1, Title |-> OldTitles[pos[k]],
         FrozenRowCount |-> 0, Rows |-> <<>>]]

\* A spreadsheet always holds at least one tab.
OldTabSets ==
    {TabsOf(pos) : pos \in
        {p \in UNION {[1..n -> DOMAIN OldTitles] : n \in 1..MaxOldTabs} :
            \A a, b \in DOMAIN p : a < b => p[a] < p[b]}}

\* The id the service gives a created spreadsheet.
CreatedId == <<"c", "r", "e", "a", "t", "e", "d">>

Titles(tabs) == {tabs[k].Title : k \in DOMAIN tabs}

\* What a response says of the spreadsheet's tabs.
SheetsOf(tabs) ==
    [k \in DOMAIN tabs |-> [SheetId |-> tabs[k].SheetId, Title |-> tabs[k].Title]]

\* Spreadsheets.Create: the tabs of the new spreadsheet, ids assigned in
\* order; a spreadsheet created without tabs gets the default one.
ServerCreate(newSheets) ==
    IF newSheets = <<>>
    THEN << [SheetId |-> 0, Title |-> "Sheet1", FrozenRowCount |-> 0, Rows |-> <<>>] >>
    ELSE [k \in DOMAIN newSheets |->
            [SheetId |-> k - 1, Title |-> newSheets[k].Title,
             FrozenRowCount |-> newSheets[k].FrozenRowCount,
             Rows |-> newSheets[k].RowData]]

\* A batch of AddSheet requests is refused when a title is taken.
ServerAccepts(tabs, requests) ==
    \A k \in DOMAIN requests :
        requests[k].kind = "AddSheet" => requests[k].Title \notin Titles(tabs)

\* The tabs after an accepted batch: AddSheet adds an empty tab with a fresh
\* id, AppendCells adds its rows below those of the tab with its SheetId,
\* AutoResizeDimensions changes no content.
RECURSIVE ServerApply(_, _)
ServerApply(tabs, requests) ==
    IF requests = <<>> THEN tabs
    ELSE LET r == Head(requests)
             next ==
                IF r.kind = "AddSheet"
                THEN Append(tabs, [SheetId |-> Len(tabs), Title |-> r.Title,
                                   FrozenRowCount |-> r.FrozenRowCount,
                                   Rows |-> <<>>])
                ELSE IF r.kind = "AppendCells"
                THEN [k \in DOMAIN tabs |->
                        IF tabs[k].SheetId = r.SheetId
                        THEN [tabs[k] EXCEPT !.Rows = @ \o r.Rows]
                        ELSE tabs[k]]
                ELSE tabs
         IN  ServerApply(next, Tail(requests))

\* ------------------------------------------------------ the sink requests

\* newSheets were the Data of the tabs left out.
newSheetsWithoutData(order, rowData) ==
    [k \in DOMAIN order |->
        [Title |-> order[k], FrozenRowCount |-> 1, RowData |-> Nil]]

\* main.go:306-317, newSheets of createSheet for one range order.
newSheets(order, rowData) ==
    [k \in DOMAIN order |->
        [Title |-> order[k], FrozenRowCount |-> 1, RowData |-> rowData[order[k]]]]

\* main.go:320, the title's date, start.Format("01-02-2006").
TitleDate(start) == <<start.month, start.day, start.year>>

\* main.go:329-341, createRequests of appendToSheet for one range order.
createRequests(order) ==
    [k \in DOMAIN order |->
        [kind |-> "AddSheet", Title |-> order[k], FrozenRowCount |-> 1]]

\* rowData[title]: nil for a title that is no key.
Lookup(rowData, title) ==
    IF title \in DOMAIN rowData THEN rowData[title] ELSE Nil

\* main.go:350-359, dataRequests: one per sheet of the response.
dataRequests(sheets, rowData) ==
    [k \in DOMAIN sheets |->
        [kind |-> "AppendCells", SheetId |-> sheets[k].SheetId,
         Rows |-> Lookup(rowData, sheets[k].Title)]]

\* main.go:156-166, the auto-resize requests: one per sheet.
resizeRequests(sheets) ==
    [k \in DOMAIN sheets |->
        [kind |-> "AutoResizeDimensions", SheetId |-> sheets[k].SheetId]]

\* ------------------------------------------------------------------ state

VARIABLES
    username, email, since,     \* the identity and date flags
    gerritFlag, gitHubFlag,     \* the per-source enable flags
    googleSheetsFlag,           \* the -sheets reference
    pc,                         \* where main is; done, fatal, panic when over
    err,                        \* the message of log.Fatal or of the panic
    start,                      \* main's start date
    spreadsheetID,              \* main's spreadsheetID
    src,                        \* the source being polled or written (0: none)
    data,                       \* the batch the last poll returned
    rowData,                    \* the accumulator: name -> styled rows
    files,                      \* the output directory: name -> rows of <name>.csv
    tabs,                       \* the tabs of the remote spreadsheet of the run
    response,                   \* appendToSheet's response
    spreadsheet,                \* main's spreadsheet
    calls,                      \* history: every remote call, in order
    events,                     \* history: every collaborator and sink step
    batches                     \* history: the batches of the successful writes

flags == <<username, email, since, gerritFlag, gitHubFlag, googleSheetsFlag>>

locals == <<start, spreadsheetID, src, data, rowData, response, spreadsheet>>

world == <<files, tabs, calls, events, batches>>

vars == <<flags, pc, err, locals, world>>

NoSpreadsheet == [SpreadsheetId |-> Nil, Sheets |-> Nil]

ZeroTime == [year |-> 1, month |-> 1, day |-> 1]

\* The state when main is entered, for the given flag values.
InitWith(users, emails, sinces, gerrits, githubs, refs) ==
    /\ username \in users
    /\ email \in emails
    /\ since \in sinces
    /\ gerritFlag \in gerrits
    /\ gitHubFlag \in githubs
    /\ googleSheetsFlag \in refs
    /\ pc = "start"
    /\ err = ""
    /\ start = ZeroTime
    /\ spreadsheetID = Nil
    /\ src = 0
    /\ data = Nil
    /\ rowData = Nil
    /\ files = Nil
    /\ tabs \in (IF googleSheetsFlag \in {EmptyRef, NewRef} \/ LocatePanics(googleSheetsFlag)
                 THEN {Nil} ELSE OldTabSets)
    /\ response = NoSpreadsheet
    /\ spreadsheet = NoSpreadsheet
    /\ calls = <<>>
    /\ events = <<>>
    /\ batches = <<>>

\* Every reference with the identities given and no date; every identity
\* and date with the reference "new".
Init ==
    \/ InitWith({"u"}, {"e@x"}, {<<>>}, BOOLEAN, BOOLEAN, Refs)
    \/ InitWith({"", "u"}, {"", "e@x"},
                {<<>>, SinceGood, SinceBadLayout, SinceBadDay},
                BOOLEAN, BOOLEAN, {NewRef})

\* log.Fatal: the message is logged and the process exits at once.
Fatal(msg) ==
    /\ pc' = "fatal"
    /\ err' = msg

Event(ev, ok) == [ev |-> ev, src |-> src, ok |-> ok]

\* ------------------------------------------------------------------- main

\* main.go:41-65: the required flags and the start date.
Startup ==
    /\ pc = "start"
    /\ IF username = "" /\ gitHubFlag
       THEN Fatal("Please provide a GitHub username.") /\ UNCHANGED start
       ELSE IF email = "" /\ gerritFlag
       THEN Fatal("Please provide your Gerrit email.") /\ UNCHANGED start
       ELSE IF since /= <<>> /\ ~ParseOK(since)
       THEN Fatal("parsing time") /\ UNCHANGED start
       ELSE pc' = "locate" /\ start' = StartOf(since) /\ UNCHANGED err
    /\ UNCHANGED <<flags, spreadsheetID, src, data, rowData, response,
                   spreadsheet, world>>

\* main.go:67-88: the spreadsheet ID of a reference that is neither "new"
\* nor empty.
Locate ==
    /\ pc = "locate"
    /\ IF googleSheetsFlag /= NewRef /\ googleSheetsFlag /= EmptyRef
       THEN IF LocatePanics(googleSheetsFlag)
            THEN /\ pc' = "panic"
                 /\ err' = "index out of range"
                 /\ UNCHANGED spreadsheetID
            ELSE IF LocatedID(googleSheetsFlag) = <<>>
            THEN /\ Fatal("Unable to determine spreadsheet ID")
                 /\ UNCHANGED spreadsheetID
            ELSE /\ spreadsheetID' = LocatedID(googleSheetsFlag)
                 /\ pc' = "tempdir"
                 /\ UNCHANGED err
       ELSE pc' = "tempdir" /\ UNCHANGED <<err, spreadsheetID>>
    /\ UNCHANGED <<flags, start, src, data, rowData, response, spreadsheet, world>>

\* main.go:90-97: the output directory and the empty accumulator.
TempDir ==
    /\ pc = "tempdir"
    /\ \E ok \in BOOLEAN :
        /\ events' = Append(events, Event("tempdir", ok))
        /\ IF ok
           THEN /\ pc' = IF gerritFlag THEN "corpus"
                         ELSE IF gitHubFlag THEN "poll" ELSE "sheets"
                /\ src' = IF ~gerritFlag /\ gitHubFlag THEN 3 ELSE 0
                /\ UNCHANGED err
           ELSE Fatal("TempDir") /\ UNCHANGED src
    /\ rowData' = Nil
    /\ UNCHANGED <<flags, start, spreadsheetID, data, response, spreadsheet,
                   files, tabs, calls, batches>>

\* main.go:101-106: godata.Get.
GetCorpus ==
    /\ pc = "corpus"
    /\ \E ok \in BOOLEAN :
        /\ events' = Append(events, Event("corpus", ok))
        /\ IF ok
           THEN pc' = "poll" /\ src' = 1 /\ UNCHANGED err
           ELSE Fatal("godata.Get") /\ UNCHANGED src
    /\ UNCHANGED <<flags, start, spreadsheetID, data, rowData, response,
                   spreadsheet, files, tabs, calls, batches>>

\* main.go:107-110, 114-117, 125-128: one source is polled; it fails or
\* returns one of the given batches.
PollFrom(choices) ==
    /\ pc = "poll"
    /\ \/ /\ events' = Append(events, Event("poll", FALSE))
          /\ Fatal(Sources[src])
          /\ UNCHANGED data
       \/ /\ events' = Append(events, Event("poll", TRUE))
          /\ data' \in choices
          /\ pc' = "write"
          /\ UNCHANGED err
    /\ UNCHANGED <<flags, start, spreadsheetID, src, rowData, response,
                   spreadsheet, files, tabs, calls, batches>>

Poll == PollFrom(Batches(src))

\* The step of main that follows the successful write of source s.
AfterWrite(s) ==
    IF s = 1 THEN <<"poll", 2>>
    ELSE IF s = 2 /\ gitHubFlag THEN <<"poll", 3>>
    ELSE <<"sheets", 0>>

\* The write step were write's error dropped by main.
WriteIgnoringError ==
    /\ pc = "write"
    /\ \/ /\ files' = WriteFiles(data, files)
          /\ rowData' = write(data, rowData)
          /\ batches' = Append(batches, data)
          /\ events' = Append(events, Event("write", TRUE))
       \/ /\ \E order \in Perms(DOMAIN data) :
             \E k \in DOMAIN order :
             \E j \in -1..(Len(data[order[k]]) - 1) :
                files' = WriteFilesFailed(data, files, order, k, j)
          /\ events' = Append(events, Event("write", FALSE))
          /\ UNCHANGED <<rowData, batches>>
    /\ pc' = AfterWrite(src)[1]
    /\ src' = AfterWrite(src)[2]
    /\ data' = Nil
    /\ UNCHANGED <<flags, err, start, spreadsheetID, response, spreadsheet, tabs, calls>>

\* main.go:111-113, 118-120, 129-131 with write (main.go:175-242): the
\* files are written in the range order of the batch; the first failing
\* file operation returns the error before rowData is touched, and main
\* exits.
Write ==
    /\ pc = "write"
    /\ \/ /\ files' = WriteFiles(data, files)
          /\ rowData' = write(data, rowData)
          /\ batches' = Append(batches, data)
          /\ events' = Append(events, Event("write", TRUE))
          /\ pc' = AfterWrite(src)[1]
          /\ src' = AfterWrite(src)[2]
          /\ data' = Nil
          /\ UNCHANGED err
       \/ /\ \E order \in Perms(DOMAIN data) :
             \E k \in DOMAIN order :
             \E j \in -1..(Len(data[order[k]]) - 1) :
                files' = WriteFilesFailed(data, files, order, k, j)
          /\ events' = Append(events, Event("write", FALSE))
          /\ Fatal("write")
          /\ UNCHANGED <<rowData, batches, src, data>>
    /\ UNCHANGED <<flags, start, spreadsheetID, response, spreadsheet, tabs, calls>>

\* The step were the early return for the empty reference missing.
SheetsWithoutReturn ==
    /\ pc = "sheets"
    /\ \E ok \in BOOLEAN :
        /\ events' = Append(events, Event("service", ok))
        /\ IF ok
           THEN /\ pc' = IF googleSheetsFlag = NewRef THEN "create" ELSE "append1"
                /\ UNCHANGED err
           ELSE Fatal("googleSheetsService")
    /\ UNCHANGED <<flags, locals, files, tabs, calls, batches>>

\* main.go:134-141: no remote sink for the empty reference; otherwise the
\* Sheets service is set up.
Sheets ==
    /\ pc = "sheets"
    /\ IF googleSheetsFlag = EmptyRef
       THEN pc' = "done" /\ UNCHANGED <<err, events>>
       ELSE \E ok \in BOOLEAN :
            /\ events' = Append(events, Event("service", ok))
            /\ IF ok
               THEN /\ pc' = IF googleSheetsFlag = NewRef THEN "create" ELSE "append1"
                    /\ UNCHANGED err
               ELSE Fatal("googleSheetsService")
    /\ UNCHANGED <<flags, locals, files, tabs, calls, batches>>

\* --------------------------------------------------------------- the sink

Call(op, id, title, requests, ok) ==
    [op |-> op, id |-> id, title |-> title, requests |-> requests, ok |-> ok]

\* main.go:143-147 with createSheet (main.go:305-325): one
\* Spreadsheets.Create call carrying every tab with its rows.
CreateSheet ==
    /\ pc = "create"
    /\ \E order \in Perms(DOMAIN rowData) : \E ok \in BOOLEAN :
        /\ calls' = Append(calls, Call("create", Nil, TitleDate(start),
                                       newSheets(order, rowData), ok))
        /\ events' = Append(events, Event("create", ok))
        /\ IF ok
           THEN /\ tabs' = ServerCreate(newSheets(order, rowData))
                /\ spreadsheet' = [SpreadsheetId |-> CreatedId, Sheets |-> SheetsOf(tabs')]
                /\ pc' = "resize"
                /\ UNCHANGED err
           ELSE Fatal("create") /\ UNCHANGED <<tabs, spreadsheet>>
    /\ UNCHANGED <<flags, start, spreadsheetID, src, data, rowData, response,
                   files, batches>>

\* main.go:148-149 with appendToSheet's first call (main.go:328-348): the
\* batch of AddSheet requests; the response holds the updated spreadsheet.
AppendPhase1 ==
    /\ pc = "append1"
    /\ \E order \in Perms(DOMAIN rowData) : \E ok \in BOOLEAN :
        /\ ok => ServerAccepts(tabs, createRequests(order))
        /\ calls' = Append(calls, Call("batchUpdate", spreadsheetID, Nil,
                                       createRequests(order), ok))
        /\ events' = Append(events, Event("addSheets", ok))
        /\ IF ok
           THEN /\ tabs' = ServerApply(tabs, createRequests(order))
                /\ response' = [SpreadsheetId |-> spreadsheetID, Sheets |-> SheetsOf(tabs')]
                /\ pc' = "append2"
                /\ UNCHANGED err
           ELSE Fatal("batchUpdate") /\ UNCHANGED <<tabs, response>>
    /\ UNCHANGED <<flags, start, spreadsheetID, src, data, rowData, spreadsheet,
                   files, batches>>

\* The second call were its error dropped: the run goes on to the
\* auto-resize with the spreadsheet of the first response.
AppendPhase2IgnoringError ==
    /\ pc = "append2"
    /\ \E ok \in BOOLEAN :
        /\ calls' = Append(calls, Call("batchUpdate", spreadsheetID, Nil,
                                       dataRequests(response.Sheets, rowData), ok))
        /\ events' = Append(events, Event("appendCells", ok))
        /\ tabs' = IF ok THEN ServerApply(tabs, dataRequests(response.Sheets, rowData))
                   ELSE tabs
        /\ response' = [SpreadsheetId |-> spreadsheetID, Sheets |-> SheetsOf(tabs')]
        /\ spreadsheet' = response'
        /\ pc' = "resize"
    /\ UNCHANGED <<flags, err, start, spreadsheetID, src, data, rowData, files, batches>>

\* appendToSheet's second call (main.go:349-367) and main.go:150-152: the
\* batch of AppendCells requests built from the first response.
AppendPhase2 ==
    /\ pc = "append2"
    /\ \E ok \in BOOLEAN :
        /\ calls' = Append(calls, Call("batchUpdate", spreadsheetID, Nil,
                                       dataRequests(response.Sheets, rowData), ok))
        /\ events' = Append(events, Event("appendCells", ok))
        /\ IF ok
           THEN /\ tabs' = ServerApply(tabs, dataRequests(response.Sheets, rowData))
                /\ response' = [SpreadsheetId |-> spreadsheetID, Sheets |-> SheetsOf(tabs')]
                /\ spreadsheet' = response'
                /\ pc' = "resize"
                /\ UNCHANGED err
           ELSE Fatal("batchUpdate") /\ UNCHANGED <<tabs, response, spreadsheet>>
    /\ UNCHANGED <<flags, start, spreadsheetID, src, data, rowData, files, batches>>

\* main.go:154-172: the auto-resize batch on the spreadsheet returned.
AutoResize ==
    /\ pc = "resize"
    /\ \E ok \in BOOLEAN :
        /\ calls' = Append(calls, Call("batchUpdate", spreadsheet.SpreadsheetId, Nil,
                                       resizeRequests(spreadsheet.Sheets), ok))
        /\ events' = Append(events, Event("autoResize", ok))
        /\ IF ok THEN pc' = "done" /\ UNCHANGED err ELSE Fatal("batchUpdate")
    /\ UNCHANGED <<flags, locals, files, tabs, batches>>

Next ==
    \/ Startup
    \/ Locate
    \/ TempDir
    \/ GetCorpus
    \/ Poll
    \/ Write
    \/ Sheets
    \/ CreateSheet
    \/ AppendPhase1
    \/ AppendPhase2
    \/ AutoResize

Spec == Init /\ [][Next]_vars

\* ------------------------------------------- the run on tables of any shape

\* One source (github.IssuesAndPRs) handing over one report whose table is
\* any sequence of at most MaxRows rows of RowShapes.
InitStyle ==
    InitWith({"u"}, {""}, {<<>>}, {FALSE}, {TRUE}, {EmptyRef, NewRef})

PollWide == PollFrom(WideBatches)

NextStyle ==
    \/ Startup
    \/ Locate
    \/ TempDir
    \/ PollWide
    \/ Write
    \/ Sheets
    \/ CreateSheet
    \/ AutoResize

SpecStyle == InitStyle /\ [][NextStyle]_vars

\* ------------------------------------------------ vocabulary of the claims

\* The report names of all successful write calls.
WrittenNames == UNION {DOMAIN batches[i] : i \in DOMAIN batches}

\* The table of report n in the most recent successful batch holding n.
LastTable(n) ==
    LET I == {i \in DOMAIN batches : n \in DOMAIN batches[i]}
    IN  batches[CHOOSE i \in I : \A j \in I : j <= i][n]

\* The row kind of the specification: the row at index 0 is the header
\* whatever it holds.
Kind(i, row) ==
    IF i = 0 THEN "Header"
    ELSE IF Len(row) >= 1 /\ row[1] = "Total" THEN "Total"
    ELSE IF Len(row) >= 1 /\ row[1] = "Subtotal" THEN "Subtotal"
    ELSE "Data"

EnabledSources ==
    (IF gerritFlag THEN {1, 2} ELSE {}) \cup (IF gitHubFlag THEN {3} ELSE {})

RemoteEvents == {"create", "addSheets", "appendCells", "autoResize"}

AppendMode == googleSheetsFlag \notin {EmptyRef, NewRef}

Kinds(requests) == {requests[k].kind : k \in DOMAIN requests}

CreateCalls == {i \in DOMAIN calls : calls[i].op = "create"}

\* The identifier each reference of Refs names, read off the reference.
ExpectedID ==
    IF googleSheetsFlag = RefWellFormed
    THEN <<"A","B","C","1","2","3","x","y","z","_","-">>
    ELSE IF googleSheetsFlag = RefQuery THEN <<"Z","z","9">>
    ELSE IF googleSheetsFlag = RefTwice THEN <<"q","1">>
    ELSE Nil

\* ------------------------------------------------------------- the claims

\* C3: every styled cell has a background color iff the kind of its row is
\* Total or Subtotal, the row at index 0 being Header whatever it holds;
\* Total rows get the Total color, Subtotal rows the Subtotal color, and the
\* two colors differ from each other and from no color.
C3_BackgroundIffTotalOrSubtotal ==
    /\ TotalColor /= SubtotalColor /\ TotalColor /= NoColor /\ SubtotalColor /= NoColor
    /\ \A n \in DOMAIN rowData :
       \A k \in DOMAIN rowData[n] :
       \A j \in DOMAIN rowData[n][k] :
          LET kind == Kind(k - 1, LastTable(n)[k])
              color == rowData[n][k][j].BackgroundColor
          IN  /\ (color /= NoColor) <=> (kind \in {"Total", "Subtotal"})
              /\ kind = "Total" => color = TotalColor
              /\ kind = "Subtotal" => color = SubtotalColor

\* C4: the bold flag of every styled cell is true iff its row is the header
\* (index 0), a Total row or a Subtotal row; a row without cells yields a
\* styled row without cells.
C4_BoldIffHeaderTotalSubtotal ==
    \A n \in DOMAIN rowData :
    \A k \in DOMAIN rowData[n] :
       /\ k \in DOMAIN LastTable(n)
       /\ LastTable(n)[k] = <<>> => rowData[n][k] = <<>>
       /\ \A j \in DOMAIN rowData[n][k] :
             rowData[n][k][j].Bold <=>
                (k = 1 \/ (LastTable(n)[k] /= <<>>
                           /\ LastTable(n)[k][1] \in {"Total", "Subtotal"}))

\* A report with a header, a plain data row, a row without cells and a
\* Subtotal row has been styled.
C4_Witness ==
    \E n \in DOMAIN rowData :
       /\ Len(rowData[n]) = 4
       /\ \E j \in DOMAIN rowData[n][1] : rowData[n][1][j].Bold
       /\ \E k \in 2..4 : LastTable(n)[k] = <<>>
       /\ \E k \in 2..4 : \E j \in DOMAIN rowData[n][k] : ~rowData[n][k][j].Bold
       /\ \E k \in 2..4 : \E j \in DOMAIN rowData[n][k] :
             rowData[n][k][j].Bold /\ LastTable(n)[k][1] = "Subtotal"

\* C5: the styled rows stored under a report's name have the report's number
\* of rows, each styled row has the number of cells of its input row, and
\* the cell values are those of the input, in order.
C5_StructurePreserved ==
    \A n \in DOMAIN rowData :
       /\ Len(rowData[n]) = Len(LastTable(n))
       /\ \A k \in DOMAIN LastTable(n) :
             /\ k \in DOMAIN rowData[n]
             /\ Len(rowData[n][k]) = Len(LastTable(n)[k])
             /\ \A j \in DOMAIN LastTable(n)[k] :
                   rowData[n][k][j].StringValue = LastTable(n)[k][j]

\* A three-row report whose rows differ in length, one of them without
\* cells, has been stored.
C5_Witness ==
    \E n \in DOMAIN rowData :
       /\ Len(rowData[n]) = 3
       /\ rowData[n][2] = <<>>
       /\ Len(rowData[n][1]) = 2
       /\ Len(rowData[n][3]) = 1

\* C1: in append mode, for N >= 1 accumulated reports the first batch call
\* holds exactly N add-tab requests and the second, issued after the first
\* has answered, exactly N append-rows requests, each on a tab created by the
\* first call and with the styled rows of the report named like the tab;
\* none targets a tab the spreadsheet held before the run.
C1_AppendOnlyToNewTabs ==
    (AppendMode /\ Len(calls) >= 2 /\ rowData /= Nil) =>
        LET N == Cardinality(DOMAIN rowData)
            first == calls[1].requests
            second == calls[2].requests
            old == Len(tabs) - Len(first)
        IN  /\ calls[1].ok
            /\ Len(first) = N
            /\ \A k \in DOMAIN first : first[k].kind = "AddSheet"
            /\ {first[k].Title : k \in DOMAIN first} = DOMAIN rowData
            /\ Len(second) = N
            /\ \A k \in DOMAIN second :
                  /\ second[k].kind = "AppendCells"
                  /\ second[k].SheetId >= old
                  /\ \E t \in DOMAIN tabs :
                        /\ tabs[t].SheetId = second[k].SheetId
                        /\ tabs[t].Title \in DOMAIN rowData
                        /\ second[k].Rows = rowData[tabs[t].Title]

\* C2: in create mode at most one create call is issued, exactly one once
\* createSheet has returned; its spreadsheet holds exactly one tab per report
\* name handed over, titled with the name, first row frozen, holding the
\* report's styled rows: as many rows as the report, so the header alone for
\* a header-only report; every report name also has its flat file.
C2_CreateHoldsEveryReport ==
    googleSheetsFlag = NewRef =>
        /\ Cardinality(CreateCalls) <= 1
        /\ pc \in {"resize", "done"} => Cardinality(CreateCalls) = 1
        /\ \A i \in CreateCalls :
              LET sh == calls[i].requests
              IN  /\ Len(sh) = Cardinality(WrittenNames)
                  /\ {sh[k].Title : k \in DOMAIN sh} = WrittenNames
                  /\ DOMAIN files = WrittenNames
                  /\ \A k \in DOMAIN sh :
                        /\ sh[k].FrozenRowCount = 1
                        /\ sh[k].RowData = rowData[sh[k].Title]
                        /\ Len(sh[k].RowData) = Len(LastTable(sh[k].Title))
                        /\ calls[i].ok =>
                              \E t \in DOMAIN tabs :
                                 /\ tabs[t].Title = sh[k].Title
                                 /\ tabs[t].Rows = sh[k].RowData

\* The reports go-issues (header, a data row, a Total row) and go-cls
\* (header only) have been created as two tabs and written as two files.
C2_Witness ==
    \E i \in CreateCalls :
       /\ calls[i].ok
       /\ Len(calls[i].requests) = 2
       /\ DOMAIN files = {"go-issues", "go-cls"}
       /\ \E a, b \in DOMAIN calls[i].requests :
             /\ calls[i].requests[a].Title = "go-issues"
             /\ Len(calls[i].requests[a].RowData) = 3
             /\ calls[i].requests[b].Title = "go-cls"
             /\ Len(calls[i].requests[b].RowData) = 1

StartupErrors ==
    {"Please provide a GitHub username.", "Please provide your Gerrit email.",
     "parsing time"}

\* C6: the reference "" gives Absent and "new" gives New; a reference in
\* which the pattern matches gives Existing(id), id being the run of ID
\* characters of the leftmost match after the trimming (ABC123xyz_- for the
\* well-formed URL); for any other reference the run ends with the fatal
\* error "Unable to determine spreadsheet ID", no file written and no remote
\* call issued.
C6_LocatorOutcome ==
    (pc \notin {"start", "locate"} /\ err \notin StartupErrors) =>
        /\ googleSheetsFlag \in {EmptyRef, NewRef} =>
              /\ spreadsheetID = Nil
              /\ pc /= "panic"
              /\ err /= "Unable to determine spreadsheet ID"
        /\ (AppendMode /\ MatchStarts(Trimmed(googleSheetsFlag)) /= {}) =>
              /\ spreadsheetID = ExpectedID
              /\ spreadsheetID /= Nil
              /\ pc /= "panic"
              /\ err /= "Unable to determine spreadsheet ID"
        /\ (AppendMode /\ MatchStarts(Trimmed(googleSheetsFlag)) = {}) =>
              /\ pc = "fatal"
              /\ err = "Unable to determine spreadsheet ID"
              /\ files = Nil
              /\ calls = <<>>

\* C7: with the empty reference no remote call is ever issued and the flat
\* files of every enabled source are still written; with "new" at most one
\* create call is issued, exactly one in a completed run, and no add-tab or
\* append-rows request; with an existing spreadsheet no create call is issued
\* and every batch call targets the id extracted from the reference.
C7_CallsFollowMode ==
    /\ googleSheetsFlag = EmptyRef =>
          /\ calls = <<>>
          /\ pc = "done" =>
                /\ Len(batches) = Cardinality(EnabledSources)
                /\ DOMAIN files = WrittenNames
    /\ googleSheetsFlag = NewRef =>
          /\ Cardinality(CreateCalls) <= 1
          /\ pc = "done" => Cardinality(CreateCalls) = 1
          /\ \A i \in DOMAIN calls :
                calls[i].op = "batchUpdate" =>
                   Kinds(calls[i].requests) \subseteq {"AutoResizeDimensions"}
    /\ AppendMode =>
          /\ CreateCalls = {}
          /\ \A i \in DOMAIN calls :
                /\ calls[i].id /= Nil
                /\ calls[i].id = ExpectedID

\* A run with the empty reference has written files and ended without a
\* remote call.
C7_Witness ==
    /\ googleSheetsFlag = EmptyRef
    /\ pc = "done"
    /\ Cardinality(DOMAIN files) >= 2
    /\ calls = <<>>

\* An append-mode run has completed its three batch calls.
C7_WitnessAppend ==
    /\ AppendMode
    /\ pc = "done"
    /\ Len(calls) = 3
    /\ rowData /= Nil

PolledAndWritten(s, r) ==
    \E p, w \in 1..(r - 1) :
       /\ p < w
       /\ events[p] = [ev |-> "poll", src |-> s, ok |-> TRUE]
       /\ events[w] = [ev |-> "write", src |-> s, ok |-> TRUE]

\* C8: only the last step of a run can have failed, and the run is then
\* over; a remote call is issued only after every enabled source has been
\* polled and its write has returned successfully; the flat files of the
\* successful writes are on disk whatever happens later.
C8_FailFast ==
    /\ \A i \in 1..(Len(events) - 1) : events[i].ok
    /\ (events /= <<>> /\ ~events[Len(events)].ok) => pc = "fatal"
    /\ pc = "panic" => events = <<>>
    /\ Cardinality({r \in DOMAIN events : events[r].ev \in RemoteEvents}) = Len(calls)
    /\ \A r \in DOMAIN events :
          events[r].ev \in RemoteEvents =>
             \A s \in EnabledSources : PolledAndWritten(s, r)
    /\ WrittenNames \subseteq DOMAIN files

\* The poll of the third source failed after two successful writes: files
\* are on disk and no remote call was issued.
C8_Witness ==
    /\ pc = "fatal"
    /\ Len(batches) = 2
    /\ events[Len(events)] = [ev |-> "poll", src |-> 3, ok |-> FALSE]
    /\ files /= Nil
    /\ googleSheetsFlag = NewRef
    /\ calls = <<>>

\* C9: in append mode a failed first call is the only call; a failed second
\* call ends the run in failure as the last call, leaving every tab the first
\* call created in the spreadsheet and empty; an auto-resize call directly
\* follows a successful create or append-rows call.
C9_PartialFailure ==
    /\ (AppendMode /\ Len(calls) >= 1 /\ ~calls[1].ok) =>
          Len(calls) = 1 /\ pc = "fatal"
    /\ (AppendMode /\ Len(calls) >= 2 /\ ~calls[2].ok) =>
          /\ pc = "fatal"
          /\ Len(calls) = 2
          /\ \A k \in DOMAIN calls[1].requests :
                \E t \in DOMAIN tabs :
                   /\ tabs[t].Title = calls[1].requests[k].Title
                   /\ tabs[t].Rows = <<>>
    /\ \A r \in DOMAIN events :
          events[r].ev = "autoResize" =>
             /\ r > 1
             /\ events[r - 1].ev \in {"create", "appendCells"}
             /\ events[r - 1].ok

\* The second call of an append-mode run with two reports has failed.
C9_Witness ==
    /\ AppendMode
    /\ Len(calls) = 2
    /\ calls[1].ok
    /\ ~calls[2].ok
    /\ Len(calls[1].requests) = 2

NoWriteFailed == \A r \in DOMAIN events : events[r].ev = "write" => events[r].ok

\* C10: the keys of the accumulator are the report names of the successful
\* write calls, each entry is the styled rows of the most recent successful
\* batch holding the name, the successful writes' files exist (and are
\* exactly the files, with the reports' rows, while no write has failed); a
\* failed write leaves the accumulator as it was.
C10_AccumulatorTracksWrites ==
    /\ DOMAIN rowData = WrittenNames
    /\ \A n \in WrittenNames : rowData[n] = StyleRows(LastTable(n))
    /\ WrittenNames \subseteq DOMAIN files
    /\ NoWriteFailed =>
          /\ DOMAIN files = WrittenNames
          /\ \A n \in WrittenNames : files[n] = LastTable(n)

\* A later batch has replaced the entry of a name with a different table.
C10_Witness ==
    /\ Len(batches) >= 2
    /\ \E n \in (DOMAIN batches[1]) \cap (DOMAIN batches[2]) :
          /\ batches[1][n] /= batches[2][n]
          /\ Len(rowData[n]) = Len(batches[2][n])

\* A write has failed after creating a file of a report that is no key of
\* the accumulator.
C10_WitnessFailed ==
    /\ ~NoWriteFailed
    /\ DOMAIN files /= DOMAIN rowData
    /\ rowData /= Nil

==========================================================================
